---- MODULE Spec2Model ----
(***************************************************************************)
(* Model of the offline cache layer of the mobile client                   *)
(* (src/mobile/hooks/useOfflineCache.ts): the persisted queue of pending   *)
(* sync operations with queueOfflineOperation / syncPendingOperations,     *)
(* and the useOfflineCache hook (loadCachedData, fetchAndCache, refresh,   *)
(* clearCache, NetInfo listener).                                          *)
(*                                                                         *)
(* JavaScript is single threaded: every action below is one continuation   *)
(* (the code between two awaits).  AsyncStorage and the network are the    *)
(* environment; AsyncStorage calls are assumed not to reject, and the      *)
(* payloads are JSON values, which JSON.parse(JSON.stringify(x)) returns   *)
(* unchanged.                                                              *)
(*                                                                         *)
(* The molecule viewer (src/unnamed/part_001): parseMoleculeData and the   *)
(* scene that onContextCreate builds, with the render loop it starts.      *)
(* Coordinates are the real numbers of the data model, kept exactly: a     *)
(* coordinate is an integer number of tenths, a centered coordinate a      *)
(* fraction.  The rounding of IEEE-754 doubles is not modelled.            *)
(*                                                                         *)
(* The ApiService (src/mobile/services/notifications.ts): a cached GET     *)
(* through request, getFromCache and setCache, with its abort timer.       *)
(*                                                                         *)
(* PDB input is kept as text in fixed columns and parsed character by      *)
(* character (split, startsWith, substring, trim, parseFloat).             *)
(*                                                                         *)
(* The auth token (ApiService.loadToken / setAuthToken / clearAuthToken)   *)
(* and the operations of src/mobile/context/AuthContext.tsx over restarts  *)
(* of the app.  There each SecureStore and AsyncStorage call may reject,   *)
(* and the order in which pending calls complete is left open.             *)
(***************************************************************************)
EXTENDS Integers, Sequences, FiniteSets, TLC

\* ---- bounds ----
MaxOps == 2          \* operations handed to queueOfflineOperation
NumPasses == 2       \* syncPendingOperations invocations that may be live at once

MaxTime == 3         \* Date.now() runs over 0..MaxTime ticks
TtlTicks == 1        \* the ttl option of the call-site, in ticks
NumValues == 2       \* distinct payloads the fetcher can resolve with

Ops == 1..MaxOps
Passes == 1..NumPasses
Outcomes == {"ok", "notok", "throw"}
Values == 1..NumValues

Null == "null"                 \* JavaScript null (state) / missing item (storage)
FetchError == "fetcherError"   \* the Error the fetcher rejected with

VARIABLES
    queue,      \* AsyncStorage[PENDING_SYNC_KEY]; <<>> stands for "no item"
    qPc,        \* queueOfflineOperation(k): "new" | "read" | "done"
    qSnap,      \* its local `pending` (the list it read)
    syncPc,     \* syncPendingOperations pass: "idle" | "getItem" | "fetch" | "done"
    pending,    \* local `pending` of the pass
    idx,        \* position of the for-of loop in `pending`
    remaining,  \* local `remaining` of the pass
    attempted,  \* history: operations the pass has sent with fetch(), in order
    results,    \* history: whether each fetch() of the pass got a 2xx, in order
    queuedLog,  \* history: operations whose queueOfflineOperation completed, in order
    replayed    \* history: operations some pass replayed with a 2xx response

syncVars == <<queue, qPc, qSnap, syncPc, pending, idx, remaining,
              attempted, results, queuedLog, replayed>>

VARIABLES
    store,      \* AsyncStorage[cacheKey]: Null or a CachedData record
    now,        \* Date.now()
    hk,         \* the hook instance: "none" | "mounted" | "rekeyed" (mounted,
                \*   its key has changed) | "unmounted"
    swr,        \* option staleWhileRevalidate of the instance
    syncOnReconnect, \* option syncOnReconnect of the call-site
    data,       \* useState data
    isLoading,  \* useState isLoading
    isStale,    \* useState isStale
    isOffline,  \* useState isOffline
    error,      \* useState error
    loadPc,     \* loadCachedData: "idle" | "getItem" | "fetch" | "setItem" | "done"
    cached,     \* its local `cached` / `parsedCache`
    loadKeep,   \* `isOffline && data` as seen by the fetchAndCache it called
    refPc,      \* refresh: "idle" | "fetch" | "setItem"
    refKeep,    \* `isOffline && data` as seen by the fetchAndCache it called
    refreshCl,  \* `isOffline && data` in the render whose fetchAndCache the
                \* memoised `refresh` callback closes over (deps [fetcher, ttl])
    listenerCl, \* `isOffline` in the render whose NetInfo listener is subscribed
    fetched,    \* history: the payload the fetcher last resolved with
    clearPc,    \* clearCache: "idle" | "removeItem"
    listeners,  \* NetInfo listeners of the instance that are subscribed
    otherStore  \* AsyncStorage[cacheKey] of the other key the call-site uses

hookVars == <<store, now, hk, swr, syncOnReconnect, data, isLoading, isStale,
              isOffline, error, loadPc, cached, loadKeep, refPc, refKeep,
              refreshCl, listenerCl, fetched, clearPc, listeners,
              otherStore>>

passVars == <<syncPc, pending, idx, remaining, attempted, results>>

VARIABLES
    inputAtoms,   \* prop `atoms`: <<>> when not passed, <<list>> when passed
    pdbData,      \* prop `pdbData`: <<>> when not passed (or ''), <<text>> otherwise
    inputBonds,   \* prop `bonds`: <<>> when not passed, <<list>> when passed
    style,        \* prop `style`
    viewerMounted,\* the MoleculeViewer component is mounted
    glPc,         \* GLView: "waiting" for its context | "created"
    molAtoms,     \* `atoms` as onContextCreate got them from parseMoleculeData
    molBonds,     \* `bonds` as onContextCreate got them from parseMoleculeData
    spheres,      \* the atom meshes added to the scene, in order
    cylinders,    \* the bonds a cylinder mesh was added for, in order
    timeoutRef,   \* timeoutRef.current: is a frame id stored in it
    framePending, \* a requestAnimationFrame(animate) callback is scheduled
    viewerLoading,\* useState isLoading of the viewer
    frames        \* history: frames rendered so far

viewerVars == <<inputAtoms, pdbData, inputBonds, style, viewerMounted, glPc,
                molAtoms, molBonds, spheres, cylinders, timeoutRef,
                framePending, viewerLoading, frames>>

VARIABLES
    apiStore,   \* AsyncStorage[CACHE_PREFIX + cacheKey]; <<>> stands for "no item"
    apiPc,      \* ApiService.request: "idle" | "getItem" | "removeItem" |
                \*   "fetch" | "json" | "setItem"
    apiOut,     \* how the last request ended: "none" | "cached" | "fetched" |
                \*   "error" | "timeout"
    apiData,    \* the data the last request returned
    apiStart    \* Date.now() when the abort timer of the request was armed

apiVars == <<apiStore, apiPc, apiOut, apiData, apiStart>>

VARIABLES
    secToken,       \* SecureStore[TOKEN_KEY]; 0 stands for "no item"
    secUser,        \* SecureStore[USER_KEY]
    asToken,        \* AsyncStorage['auth_token']
    authToken,      \* ApiService.authToken; 0 stands for null
    ltPc,           \* loadToken of the constructor: "getItem" | "resume" | "done"
    ltVal,          \* the value its getItem read
    lastSet,        \* history: the token setAuthToken/clearAuthToken last put
                    \*   in memory (Unset: neither was called on this instance)
    meCache,        \* AsyncStorage[CACHE_PREFIX + '/users/me_""']; <<>>: no item
    reqToken,       \* the Authorization the '/users/me' fetch in flight carries
    authOp,         \* AuthContext operation in flight: "none" | "load" |
                    \*   "login" | "logout" | "refreshAuth"
    authPc,         \* the await it is suspended at, "idle" when none is in flight
    authResult,     \* how the last operation ended: "none" | "resolved" |
                    \*   "rejected" | "rethrown" (refreshAuth, after its logout())
    respToken,      \* the token the server handed to the operation in flight
    respUser,       \* the user the server (or SecureStore) handed to it
    user,           \* AuthState.user; 0 stands for null
    isAuthenticated,\* AuthState.isAuthenticated
    authIsLoading,  \* AuthState.isLoading
    authError       \* AuthState.error

authVars == <<secToken, secUser, asToken, authToken, ltPc, ltVal, lastSet,
              meCache, reqToken, authOp, authPc, authResult, respToken,
              respUser, user, isAuthenticated, authIsLoading, authError>>

vars == <<syncVars, hookVars, viewerVars, apiVars, authVars>>

\* ---- queueOfflineOperation ----

\* lines 194-197: the getItem of the queue completes; `pending` is what it read
QueueRead(k) ==
    /\ qPc[k] = "new"
    /\ \A j \in Ops : j < k => qPc[j] # "new"   \* ids are handed out in call order
    /\ qPc' = [qPc EXCEPT ![k] = "read"]
    /\ qSnap' = [qSnap EXCEPT ![k] = queue]
    /\ UNCHANGED <<queue, syncPc, pending, idx, remaining, attempted, results,
                   queuedLog, replayed>>
    /\ UNCHANGED <<hookVars, viewerVars, apiVars, authVars>>

\* lines 199-206: push the new operation and setItem the list that was read
QueuePushed(snap, k) == Append(snap, k)

QueueWrite(k) ==
    /\ qPc[k] = "read"
    /\ queue' = QueuePushed(qSnap[k], k)
    /\ qPc' = [qPc EXCEPT ![k] = "done"]
    /\ queuedLog' = Append(queuedLog, k)
    /\ UNCHANGED <<qSnap, syncPc, pending, idx, remaining, attempted, results,
                   replayed>>
    /\ UNCHANGED <<hookVars, viewerVars, apiVars, authVars>>

\* ---- syncPendingOperations ----

FreePasses == {p \in Passes : syncPc[p] \in {"idle", "done"}}

\* the state of a pass right after syncPendingOperations() was called:
\* line 215 has issued getItem and the function is suspended
StartedPass(f, S, v) == [p \in Passes |-> IF p \in S THEN v ELSE f[p]]

StartPasses(S) ==
    /\ syncPc' = StartedPass(syncPc, S, "getItem")
    /\ pending' = StartedPass(pending, S, <<>>)
    /\ idx' = StartedPass(idx, S, 0)
    /\ remaining' = StartedPass(remaining, S, <<>>)
    /\ attempted' = StartedPass(attempted, S, <<>>)
    /\ results' = StartedPass(results, S, <<>>)

\* a manual call of the exported function
SyncCall(p) ==
    /\ p \in FreePasses
    /\ \A q \in FreePasses : p <= q             \* the slots are interchangeable
    /\ StartPasses({p})
    /\ UNCHANGED <<queue, qPc, qSnap, queuedLog, replayed>>
    /\ UNCHANGED <<hookVars, viewerVars, apiVars, authVars>>

\* lines 215-224: getItem completes; empty -> return, else enter the loop and
\* send the first operation
SyncRead(p) ==
    /\ syncPc[p] = "getItem"
    /\ IF queue = <<>>
       THEN /\ syncPc' = [syncPc EXCEPT ![p] = "done"]
            /\ UNCHANGED <<pending, idx, attempted>>
       ELSE /\ syncPc' = [syncPc EXCEPT ![p] = "fetch"]
            /\ pending' = [pending EXCEPT ![p] = queue]
            /\ idx' = [idx EXCEPT ![p] = 1]
            /\ attempted' = [attempted EXCEPT ![p] = <<queue[1]>>]
    /\ UNCHANGED <<queue, qPc, qSnap, remaining, results, queuedLog, replayed>>
    /\ UNCHANGED <<hookVars, viewerVars, apiVars, authVars>>

\* mutant: only a non-2xx response keeps the operation, a thrown fetch drops it
KeepAfterDropsThrown(rem, op, outcome) ==
    IF outcome = "notok" THEN Append(rem, op) ELSE rem

\* lines 230-237: what the loop body does with the outcome of one fetch
KeepAfter(rem, op, outcome) ==
    IF outcome = "ok" THEN rem ELSE Append(rem, op)

\* lines 221-245: the loop continues after a failure; after the last
\* operation the remaining list is written (or the item removed)
LoopContinues(p, outcome) == idx[p] < Len(pending[p])

SyncResponse(p, outcome) ==
    /\ syncPc[p] = "fetch"
    /\ LET op == pending[p][idx[p]]
           rem == KeepAfter(remaining[p], op, outcome)
       IN /\ remaining' = [remaining EXCEPT ![p] = rem]
          /\ results' = [results EXCEPT ![p] = Append(@, outcome = "ok")]
          /\ replayed' = IF outcome = "ok" THEN replayed \cup {op} ELSE replayed
          /\ IF LoopContinues(p, outcome)
             THEN /\ idx' = [idx EXCEPT ![p] = @ + 1]
                  /\ attempted' = [attempted EXCEPT
                                     ![p] = Append(@, pending[p][idx[p] + 1])]
                  /\ UNCHANGED <<queue, syncPc>>
             ELSE /\ queue' = rem
                  /\ syncPc' = [syncPc EXCEPT ![p] = "done"]
                  /\ UNCHANGED <<idx, attempted>>
    /\ UNCHANGED <<qPc, qSnap, pending, queuedLog>>
    /\ UNCHANGED <<hookVars, viewerVars, apiVars, authVars>>

\* ---- useOfflineCache ----

NoData == 0                    \* data === null
Mounted == hk = "mounted"      \* isMounted.current
Rendered == hk \in {"mounted", "rekeyed"}   \* the component is mounted
Entry(st) == st[1]             \* storage items are <<>> (no item) or <<record>>

\* mutant: an entry whose age equals its ttl already counts as expired
IsExpiredAtTtl(entry, t) == t - entry.timestamp >= entry.ttl

\* line 99: isExpired
IsExpired(entry, t) == t - entry.timestamp > entry.ttl

\* mutant: the entry keeps the timestamp 0 instead of Date.now()
CacheEntryUnstamped(v, t) == [data |-> v, timestamp |-> 0, ttl |-> TtlTicks]

\* lines 141-145: cacheEntry
CacheEntry(v, t) == [data |-> v, timestamp |-> t, ttl |-> TtlTicks]

\* mutant: an expired entry is never surfaced
SurfacesExpiredNever(opt) == FALSE

\* line 108: an expired entry is surfaced only with staleWhileRevalidate
SurfacesExpired(opt) == opt

\* mutant: the catch always takes the error branch
KeepsStaleNever(keep) == FALSE

\* mutant: the catch always takes the keep-stale branch
KeepsStaleAlways(keep) == TRUE

\* line 150: the catch of fetchAndCache keeps the stale data without an error
\* when its closure saw `isOffline && data`
KeepsStale(keep) == keep

\* lines 129-132: fetchAndCache up to its first await
FetchStarted ==
    /\ isLoading' = TRUE
    /\ error' = Null

\* lines 134-147: the fetcher resolved with v
FetchResolved(v) ==
    /\ IF Mounted
       THEN data' = v /\ isStale' = FALSE /\ error' = Null
       ELSE UNCHANGED <<data, isStale, error>>
    /\ store' = <<CacheEntry(v, now)>>
    /\ fetched' = v

\* lines 148-163: the fetcher rejected; catch, then finally
FetchRejected(keep) ==
    /\ IF Mounted
       THEN /\ IF KeepsStale(keep)
               THEN isStale' = TRUE /\ UNCHANGED error
               ELSE error' = FetchError /\ UNCHANGED isStale
            /\ isLoading' = FALSE
       ELSE UNCHANGED <<isStale, error, isLoading>>
    /\ UNCHANGED <<data, store, fetched>>

\* lines 159-163: finally, after the setItem completed
FetchSettled ==
    /\ isLoading' = (IF Mounted THEN FALSE ELSE isLoading)
    /\ UNCHANGED <<data, isStale, error, store, fetched>>

\* lines 56-63, 66-68, 85-86, 94: the first render of a new instance and its
\* effects: the listener is subscribed and loadCachedData() issues getItem.
\* A new instance is modelled once the previous one has no continuation left.
Mount(opt) ==
    /\ ~Rendered
    /\ loadPc \in {"idle", "done"}
    /\ refPc = "idle"
    /\ clearPc = "idle"
    /\ hk' = "mounted"
    /\ swr' = opt
    /\ data' = NoData
    /\ isLoading' = TRUE
    /\ isStale' = FALSE
    /\ isOffline' = FALSE
    /\ error' = Null
    /\ loadPc' = "getItem"
    /\ cached' = <<>>
    /\ loadKeep' = FALSE
    /\ refreshCl' = FALSE
    /\ listenerCl' = FALSE
    /\ listeners' = 1
    /\ UNCHANGED <<store, now, syncOnReconnect, refPc, refKeep, fetched>>
    /\ UNCHANGED <<syncVars, viewerVars, apiVars, authVars, clearPc, otherStore>>

AfterCleanupLeaks(n) == n

\* lines 79-81: the cleanup of the NetInfo effect calls unsubscribe()
AfterCleanup(n) == n - 1

\* lines 79-81, 87-89: the effects' cleanups
Unmount ==
    /\ Rendered
    /\ hk' = "unmounted"
    /\ listeners' = AfterCleanup(listeners)
    /\ UNCHANGED <<store, now, swr, syncOnReconnect, data, isLoading, isStale,
                   isOffline, error, loadPc, cached, loadKeep, refPc, refKeep,
                   refreshCl, listenerCl, fetched>>
    /\ UNCHANGED <<syncVars, viewerVars, apiVars, authVars, clearPc, otherStore>>

\* lines 85-90 with a new `key`: the cleanup of the load effect sets
\* isMounted.current = false, which nothing sets back, and the effect of the
\* new render calls its loadCachedData(), which issues getItem for the new
\* cacheKey.  No state is reset.  The key is taken to change when no read,
\* refresh or clearCache of the instance is under way.
KeyChange ==
    /\ Rendered
    /\ loadPc = "done"
    /\ refPc = "idle"
    /\ clearPc = "idle"
    /\ hk' = "rekeyed"
    /\ store' = otherStore
    /\ otherStore' = store
    /\ loadPc' = "getItem"
    /\ cached' = <<>>
    /\ loadKeep' = (isOffline /\ data # NoData)
    /\ UNCHANGED <<now, swr, syncOnReconnect, data, isLoading, isStale,
                   isOffline, error, refPc, refKeep, refreshCl, listenerCl,
                   fetched>>
    /\ UNCHANGED <<syncVars, viewerVars, apiVars, authVars, clearPc, listeners>>

\* lines 94-118 and 129-132: getItem completed
LoadResume ==
    /\ loadPc = "getItem"
    /\ cached' = store
    /\ IF store # <<>> /\ ~IsExpired(Entry(store), now)
       THEN /\ IF Mounted
               THEN /\ data' = Entry(store).data
                    /\ isStale' = FALSE
                    /\ isLoading' = FALSE
               ELSE UNCHANGED <<data, isStale, isLoading>>
            /\ loadPc' = "done"
            /\ UNCHANGED error
       ELSE /\ IF store # <<>> /\ SurfacesExpired(swr) /\ Mounted
               THEN data' = Entry(store).data /\ isStale' = TRUE
               ELSE UNCHANGED <<data, isStale>>
            /\ FetchStarted
            /\ loadPc' = "fetch"
    /\ UNCHANGED <<store, now, hk, swr, syncOnReconnect, isOffline, loadKeep,
                   refPc, refKeep, refreshCl, listenerCl, fetched>>
    /\ UNCHANGED <<syncVars, viewerVars, apiVars, authVars, clearPc, listeners, otherStore>>

LoadFetchOk(v) ==
    /\ loadPc = "fetch"
    /\ FetchResolved(v)
    /\ loadPc' = "setItem"
    /\ UNCHANGED <<now, hk, swr, syncOnReconnect, isLoading, isOffline, cached,
                   loadKeep, refPc, refKeep, refreshCl, listenerCl>>
    /\ UNCHANGED <<syncVars, viewerVars, apiVars, authVars, clearPc, listeners, otherStore>>

LoadFetchFail ==
    /\ loadPc = "fetch"
    /\ FetchRejected(loadKeep)
    /\ loadPc' = "done"
    /\ UNCHANGED <<now, hk, swr, syncOnReconnect, isOffline, cached,
                   loadKeep, refPc, refKeep, refreshCl, listenerCl>>
    /\ UNCHANGED <<syncVars, viewerVars, apiVars, authVars, clearPc, listeners, otherStore>>

LoadSettled ==
    /\ loadPc = "setItem"
    /\ FetchSettled
    /\ loadPc' = "done"
    /\ UNCHANGED <<now, hk, swr, syncOnReconnect, isOffline, cached,
                   loadKeep, refPc, refKeep, refreshCl, listenerCl>>
    /\ UNCHANGED <<syncVars, viewerVars, apiVars, authVars, clearPc, listeners, otherStore>>

RefreshFetchesIfExpired(st, t) == st = <<>> \/ IsExpired(Entry(st), t)

\* lines 166-168, 127-132: refresh goes straight to fetchAndCache, which calls
\* the fetcher without reading the persisted entry
RefreshFetches(st, t) == TRUE

\* lines 166-168: the caller invokes the `refresh` it was handed
Refresh ==
    /\ Rendered
    /\ refPc = "idle"
    /\ IF RefreshFetches(store, now)
       THEN /\ FetchStarted
            /\ refPc' = "fetch"
            /\ refKeep' = refreshCl
       ELSE UNCHANGED <<isLoading, error, refPc, refKeep>>
    /\ UNCHANGED <<store, now, hk, swr, syncOnReconnect, data, isStale,
                   isOffline, loadPc, cached, loadKeep, refreshCl, listenerCl,
                   fetched>>
    /\ UNCHANGED <<syncVars, viewerVars, apiVars, authVars, clearPc, listeners, otherStore>>

RefreshFetchOk(v) ==
    /\ refPc = "fetch"
    /\ FetchResolved(v)
    /\ refPc' = "setItem"
    /\ UNCHANGED <<now, hk, swr, syncOnReconnect, isLoading, isOffline, loadPc,
                   cached, loadKeep, refKeep, refreshCl, listenerCl>>
    /\ UNCHANGED <<syncVars, viewerVars, apiVars, authVars, clearPc, listeners, otherStore>>

RefreshFetchFail ==
    /\ refPc = "fetch"
    /\ FetchRejected(refKeep)
    /\ refPc' = "idle"
    /\ UNCHANGED <<now, hk, swr, syncOnReconnect, isOffline, loadPc, cached,
                   loadKeep, refKeep, refreshCl, listenerCl>>
    /\ UNCHANGED <<syncVars, viewerVars, apiVars, authVars, clearPc, listeners, otherStore>>

RefreshSettled ==
    /\ refPc = "setItem"
    /\ FetchSettled
    /\ refPc' = "idle"
    /\ UNCHANGED <<now, hk, swr, syncOnReconnect, isOffline, loadPc, cached,
                   loadKeep, refKeep, refreshCl, listenerCl>>
    /\ UNCHANGED <<syncVars, viewerVars, apiVars, authVars, clearPc, listeners, otherStore>>

\* line 168: a render with a new `fetcher` (or ttl) re-creates `refresh`, which
\* then closes over that render's fetchAndCache and so over its data/isOffline
FetcherChanged ==
    /\ Rendered
    /\ refreshCl # (isOffline /\ data # NoData)
    /\ refreshCl' = (isOffline /\ data # NoData)
    /\ UNCHANGED <<store, now, hk, swr, syncOnReconnect, data, isLoading,
                   isStale, isOffline, error, loadPc, cached, loadKeep, refPc,
                   refKeep, listenerCl, fetched>>
    /\ UNCHANGED <<syncVars, viewerVars, apiVars, authVars, clearPc, listeners, otherStore>>

\* lines 67-77: the subscribed NetInfo listener is called
NetEvent(nowOnline) ==
    /\ Rendered
    /\ isOffline' = ~nowOnline
    /\ IF listenerCl /\ nowOnline /\ syncOnReconnect
       THEN /\ FreePasses # {}
            /\ StartPasses({CHOOSE p \in FreePasses : \A q \in FreePasses : p <= q})
       ELSE UNCHANGED passVars
    /\ UNCHANGED <<store, now, hk, swr, syncOnReconnect, data, isLoading,
                   isStale, error, loadPc, cached, loadKeep, refPc, refKeep,
                   refreshCl, listenerCl, fetched>>
    /\ UNCHANGED <<queue, qPc, qSnap, queuedLog, replayed>>
    /\ UNCHANGED <<viewerVars, apiVars, authVars, clearPc, listeners, otherStore>>

\* lines 66, 79-82: isOffline changed, so the effect unsubscribes the old
\* listener and subscribes the one of the current render
Resubscribe ==
    /\ Rendered
    /\ listenerCl # isOffline
    /\ listenerCl' = isOffline
    /\ listeners' = AfterCleanup(listeners) + 1
    /\ UNCHANGED <<store, now, hk, swr, syncOnReconnect, data, isLoading,
                   isStale, isOffline, error, loadPc, cached, loadKeep, refPc,
                   refKeep, refreshCl, fetched>>
    /\ UNCHANGED <<syncVars, viewerVars, apiVars, authVars, clearPc, otherStore>>

\* time passes
Tick ==
    /\ now < MaxTime
    /\ now' = now + 1
    /\ UNCHANGED <<store, hk, swr, syncOnReconnect, data, isLoading, isStale,
                   isOffline, error, loadPc, cached, loadKeep, refPc, refKeep,
                   refreshCl, listenerCl, fetched>>
    /\ UNCHANGED <<syncVars, viewerVars, apiVars, authVars, clearPc, listeners, otherStore>>

\* line 171: clearCache is called and AsyncStorage removes the item
ClearCache ==
    /\ Rendered
    /\ clearPc = "idle"
    /\ clearPc' = "removeItem"
    /\ store' = <<>>
    /\ UNCHANGED <<now, hk, swr, syncOnReconnect, data, isLoading, isStale,
                   isOffline, error, loadPc, cached, loadKeep, refPc, refKeep,
                   refreshCl, listenerCl, fetched>>
    /\ UNCHANGED <<syncVars, viewerVars, apiVars, authVars, listeners, otherStore>>

\* lines 172-175: removeItem completed
ClearResume ==
    /\ clearPc = "removeItem"
    /\ clearPc' = "idle"
    /\ data' = IF Mounted THEN NoData ELSE data
    /\ isStale' = IF Mounted THEN FALSE ELSE isStale
    /\ UNCHANGED <<store, now, hk, swr, syncOnReconnect, isLoading, isOffline,
                   error, loadPc, cached, loadKeep, refPc, refKeep, refreshCl,
                   listenerCl, fetched>>
    /\ UNCHANGED <<syncVars, viewerVars, apiVars, authVars, listeners, otherStore>>

\* ---- ApiService.request (src/mobile/services/notifications.ts) ----

ApiTimeoutTicks == 2   \* API_TIMEOUT, in ticks

ApiIsExpiredAtTtl(entry, t) == t - entry.timestamp >= entry.ttl

\* line 336
ApiIsExpired(entry, t) == t - entry.timestamp > entry.ttl

\* lines 360-370, 328-330: a GET with useCache is called; getFromCache issues
\* its getItem.  One request is followed at a time.
ApiRequest ==
    /\ apiPc = "idle"
    /\ apiPc' = "getItem"
    /\ UNCHANGED <<apiStore, apiOut, apiData, apiStart>>
    /\ UNCHANGED <<syncVars, hookVars, viewerVars, authVars>>

\* lines 331-341, 371-377, 386: getItem completed.  A hit is returned as it
\* is; an expired entry is removed; with no entry the abort timer is armed
\* and the fetch sent.
ApiCacheResume ==
    /\ apiPc = "getItem"
    /\ IF apiStore = <<>>
       THEN /\ apiPc' = "fetch"
            /\ apiStart' = now
            /\ UNCHANGED <<apiOut, apiData>>
       ELSE IF ApiIsExpired(Entry(apiStore), now)
       THEN /\ apiPc' = "removeItem"
            /\ UNCHANGED <<apiOut, apiData, apiStart>>
       ELSE /\ apiPc' = "idle"
            /\ apiOut' = "cached"
            /\ apiData' = Entry(apiStore).data
            /\ UNCHANGED apiStart
    /\ UNCHANGED apiStore
    /\ UNCHANGED <<syncVars, hookVars, viewerVars, authVars>>

\* lines 337-338, 371, 376-377, 386: the expired entry was removed, so
\* getFromCache returned null; the abort timer is armed and the fetch sent
ApiRemoved ==
    /\ apiPc = "removeItem"
    /\ apiStore' = <<>>
    /\ apiPc' = "fetch"
    /\ apiStart' = now
    /\ UNCHANGED <<apiOut, apiData>>
    /\ UNCHANGED <<syncVars, hookVars, viewerVars, authVars>>

\* lines 386-407: the response arrived and the timer was cleared; a status
\* outside 2xx is thrown
ApiResponse(ok) ==
    /\ apiPc = "fetch"
    /\ IF ok
       THEN apiPc' = "json" /\ UNCHANGED apiOut
       ELSE apiPc' = "idle" /\ apiOut' = "error"
    /\ UNCHANGED <<apiStore, apiData, apiStart>>
    /\ UNCHANGED <<syncVars, hookVars, viewerVars, authVars>>

\* lines 417-424: fetch rejected, with a network error
ApiNetworkError ==
    /\ apiPc = "fetch"
    /\ apiPc' = "idle"
    /\ apiOut' = "error"
    /\ UNCHANGED <<apiStore, apiData, apiStart>>
    /\ UNCHANGED <<syncVars, hookVars, viewerVars, authVars>>

\* lines 377, 417-422: API_TIMEOUT after the timer was armed it fires and
\* aborts the fetch, which is rethrown as 'Request timeout'
ApiAbort ==
    /\ apiPc = "fetch"
    /\ now - apiStart >= ApiTimeoutTicks
    /\ apiPc' = "idle"
    /\ apiOut' = "timeout"
    /\ UNCHANGED <<apiStore, apiData, apiStart>>
    /\ UNCHANGED <<syncVars, hookVars, viewerVars, authVars>>

\* lines 409-414, 347-354: the body was read as v; setCache writes the entry
ApiJson(v) ==
    /\ apiPc = "json"
    /\ apiData' = v
    /\ apiStore' = <<CacheEntry(v, now)>>
    /\ apiPc' = "setItem"
    /\ UNCHANGED <<apiOut, apiStart>>
    /\ UNCHANGED <<syncVars, hookVars, viewerVars, authVars>>

\* line 416: setItem completed and the response is returned
ApiReturn ==
    /\ apiPc = "setItem"
    /\ apiPc' = "idle"
    /\ apiOut' = "fetched"
    /\ UNCHANGED <<apiStore, apiData, apiStart>>
    /\ UNCHANGED <<syncVars, hookVars, viewerVars, authVars>>

\* ---- ApiService token and AuthContext (src/mobile/context/AuthContext.tsx) ----

NumTokens == 2       \* tokens the server hands out
NumUsers == 1        \* users (and their profiles) the server knows

Tokens == 1..NumTokens
Users == 1..NumUsers
NoToken == 0         \* null token / missing item
NoUser == 0          \* null user / missing item
Unset == -1
AuthFailed == "failed"   \* error.message || 'Login failed'

otherAuthVars == <<syncVars, hookVars, viewerVars, apiVars>>

\* notifications.ts 318-320: setAuthToken up to its await
SetAuthToken(t) ==
    /\ authToken' = t
    /\ lastSet' = t

\* notifications.ts 323-325: clearAuthToken up to its await
ClearAuthToken ==
    /\ authToken' = NoToken
    /\ lastSet' = NoToken

\* setState({ user, isAuthenticated: true, isLoading: false, error: null })
SignedIn(u) ==
    /\ user' = u
    /\ isAuthenticated' = TRUE
    /\ authIsLoading' = FALSE
    /\ authError' = Null

\* setState({ user: null, isAuthenticated: false, isLoading: false, error: null })
SignedOut ==
    /\ user' = NoUser
    /\ isAuthenticated' = FALSE
    /\ authIsLoading' = FALSE
    /\ authError' = Null

\* setState((prev) => ({ ...prev, isLoading: false }))
LoadingOff ==
    /\ authIsLoading' = FALSE
    /\ UNCHANGED <<user, isAuthenticated, authError>>

\* lines 125-130: setState((prev) => ({ ...prev, isLoading: false, error }))
Failed ==
    /\ authIsLoading' = FALSE
    /\ authError' = AuthFailed
    /\ UNCHANGED <<user, isAuthenticated>>

\* the operation in flight ends
Ends(result) ==
    /\ authPc' = "idle"
    /\ authOp' = "none"
    /\ authResult' = result

\* notifications.ts 347-354, with the token the response was fetched under
ProfileEntry(p, t, tok) ==
    [data |-> p, timestamp |-> t, ttl |-> TtlTicks, token |-> tok]

\* notifications.ts 594, 305-308 and AuthContext.tsx 37-47: the app starts.
\* The module creates the ApiService, whose constructor calls loadToken()
\* without awaiting it; AuthProvider mounts and its effect calls
\* loadStoredAuth(), which issues the two SecureStore reads.  What is
\* persisted stays.
AppStart ==
    /\ authPc = "idle"
    /\ authToken' = NoToken
    /\ ltPc' = "getItem"
    /\ ltVal' = NoToken
    /\ lastSet' = Unset
    /\ reqToken' = NoToken
    /\ authOp' = "load"
    /\ authPc' = "secureGet"
    /\ authResult' = "none"
    /\ respToken' = NoToken
    /\ respUser' = NoUser
    /\ user' = NoUser
    /\ isAuthenticated' = FALSE
    /\ authIsLoading' = TRUE
    /\ authError' = Null
    /\ UNCHANGED <<secToken, secUser, asToken, meCache>>
    /\ UNCHANGED otherAuthVars

\* notifications.ts 310-316: AsyncStorage reads the item for loadToken, or
\* fails, which loadToken only logs
LoadTokenRead(ok) ==
    /\ ltPc = "getItem"
    /\ IF ok
       THEN ltVal' = asToken /\ ltPc' = "resume"
       ELSE ltPc' = "done" /\ UNCHANGED ltVal
    /\ UNCHANGED <<secToken, secUser, asToken, authToken, lastSet, meCache,
                   reqToken, authOp, authPc, authResult, respToken, respUser,
                   user, isAuthenticated, authIsLoading, authError>>
    /\ UNCHANGED otherAuthVars

\* notifications.ts 312: loadToken resumes and assigns what was read
LoadTokenResume ==
    /\ ltPc = "resume"
    /\ authToken' = ltVal
    /\ ltPc' = "done"
    /\ UNCHANGED <<secToken, secUser, asToken, ltVal, lastSet, meCache,
                   reqToken, authOp, authPc, authResult, respToken, respUser,
                   user, isAuthenticated, authIsLoading, authError>>
    /\ UNCHANGED otherAuthVars

\* lines 49-59, 91-97: the SecureStore reads of loadStoredAuth settled.  With
\* both items it calls api.setAuthToken(token); with one missing, or a read
\* that failed, it only turns isLoading off.
LoadStoredRead(ok) ==
    /\ authOp = "load"
    /\ authPc = "secureGet"
    /\ IF ok /\ secToken # NoToken /\ secUser # NoUser
       THEN /\ SetAuthToken(secToken)
            /\ respToken' = secToken
            /\ respUser' = secUser
            /\ authPc' = "setItem"
            /\ UNCHANGED <<authOp, authResult, user, isAuthenticated,
                           authIsLoading, authError>>
       ELSE /\ LoadingOff
            /\ Ends("resolved")
            /\ UNCHANGED <<authToken, lastSet, respToken, respUser>>
    /\ UNCHANGED <<secToken, secUser, asToken, ltPc, ltVal, meCache, reqToken>>
    /\ UNCHANGED otherAuthVars

\* lines 59, 62 and notifications.ts 320, 580, 370: the setItem of
\* setAuthToken settled; getUserProfile() is called and issues the getItem
\* of getFromCache.  A failed setItem ends in the outer catch.
LoadStoredTokenSaved(ok) ==
    /\ authOp = "load"
    /\ authPc = "setItem"
    /\ IF ok
       THEN /\ asToken' = respToken
            /\ authPc' = "cacheGet"
            /\ UNCHANGED <<authOp, authResult, user, isAuthenticated,
                           authIsLoading, authError>>
       ELSE /\ LoadingOff
            /\ Ends("resolved")
            /\ UNCHANGED asToken
    /\ UNCHANGED <<secToken, secUser, authToken, ltPc, ltVal, lastSet,
                   meCache, reqToken, respToken, respUser>>
    /\ UNCHANGED otherAuthVars

\* notifications.ts 328-345, 369-386 and lines 62-68: getFromCache settled.
\* An entry within its ttl is returned as the profile; an older one is
\* removed; without a returned entry the fetch is sent with the token in
\* memory.  (The removeItem of an old entry is taken within this step.)
ProfileCacheRead ==
    /\ authOp = "load"
    /\ authPc = "cacheGet"
    /\ IF meCache # <<>> /\ ~ApiIsExpired(Entry(meCache), now)
       THEN /\ SignedIn(Entry(meCache).data)
            /\ Ends("resolved")
            /\ UNCHANGED <<meCache, reqToken>>
       ELSE /\ meCache' = <<>>
            /\ reqToken' = authToken
            /\ authPc' = "fetch"
            /\ UNCHANGED <<authOp, authResult, user, isAuthenticated,
                           authIsLoading, authError>>
    /\ UNCHANGED <<secToken, secUser, asToken, authToken, ltPc, ltVal,
                   lastSet, respToken, respUser>>
    /\ UNCHANGED otherAuthVars

\* notifications.ts 386-416 and lines 62-73: the '/users/me' request settled.
\* A 2xx body is cached and becomes state.user; anything else makes
\* loadStoredAuth call api.refreshToken().  (The setItem of setCache, whose
\* failure is only logged, is taken within this step.)
ProfileResponse(ok, p) ==
    /\ authOp = "load"
    /\ authPc = "fetch"
    /\ IF ok
       THEN /\ meCache' = <<ProfileEntry(p, now, reqToken)>>
            /\ SignedIn(p)
            /\ Ends("resolved")
       ELSE /\ authPc' = "refresh"
            /\ UNCHANGED <<meCache, authOp, authResult, user,
                           isAuthenticated, authIsLoading, authError>>
    /\ UNCHANGED <<secToken, secUser, asToken, authToken, ltPc, ltVal,
                   lastSet, reqToken, respToken, respUser>>
    /\ UNCHANGED otherAuthVars

\* lines 73, 81-83, 99-103 and notifications.ts 457-462: the '/auth/refresh'
\* request of loadStoredAuth settled: with a token, setAuthToken(token);
\* otherwise clearStoredAuth() issues the two SecureStore deletes
LoadStoredRefreshed(ok, t) ==
    /\ authOp = "load"
    /\ authPc = "refresh"
    /\ IF ok
       THEN /\ SetAuthToken(t)
            /\ respToken' = t
            /\ authPc' = "refreshSave"
       ELSE /\ authPc' = "clearSecure"
            /\ UNCHANGED <<authToken, lastSet, respToken>>
    /\ UNCHANGED <<secToken, secUser, asToken, ltPc, ltVal, meCache, reqToken,
                   authOp, authResult, respUser, user, isAuthenticated,
                   authIsLoading, authError>>
    /\ UNCHANGED otherAuthVars

\* lines 73-80 and notifications.ts 320, 462-463: the setItem of that
\* setAuthToken settled; refreshToken() returns and the stored user becomes
\* state.user.  SecureStore is not written.
LoadStoredRefreshSaved(ok) ==
    /\ authOp = "load"
    /\ authPc = "refreshSave"
    /\ IF ok
       THEN /\ asToken' = respToken
            /\ SignedIn(respUser)
            /\ Ends("resolved")
       ELSE /\ authPc' = "clearSecure"
            /\ UNCHANGED <<asToken, authOp, authResult, user, isAuthenticated,
                           authIsLoading, authError>>
    /\ UNCHANGED <<secToken, secUser, authToken, ltPc, ltVal, lastSet,
                   meCache, reqToken, respToken, respUser>>
    /\ UNCHANGED otherAuthVars

\* lines 99-105: the two SecureStore deletes of clearStoredAuth settled, each
\* on its own; if both succeeded api.clearAuthToken() is called.  If one
\* failed clearStoredAuth rejects: in loadStoredAuth the outer catch turns
\* isLoading off (93-96); in logout the finally block throws before its
\* setState (141-148).
ClearSecure(tokenOk, userOk) ==
    /\ authPc = "clearSecure"
    /\ secToken' = (IF tokenOk THEN NoToken ELSE secToken)
    /\ secUser' = (IF userOk THEN NoUser ELSE secUser)
    /\ IF tokenOk /\ userOk
       THEN /\ ClearAuthToken
            /\ authPc' = "clearToken"
            /\ UNCHANGED <<authOp, authResult, user, isAuthenticated,
                           authIsLoading, authError>>
       ELSE /\ IF authOp = "load"
               THEN LoadingOff /\ Ends("resolved")
               ELSE /\ Ends("rejected")
                    /\ UNCHANGED <<user, isAuthenticated, authIsLoading,
                                   authError>>
            /\ UNCHANGED <<authToken, lastSet>>
    /\ UNCHANGED <<asToken, ltPc, ltVal, meCache, reqToken, respToken,
                   respUser>>
    /\ UNCHANGED otherAuthVars

\* lines 104, 84-89, 142-148, 211-212 and notifications.ts 325: the
\* removeItem of that clearAuthToken settled.  loadStoredAuth and logout set
\* the signed-out state; refreshAuth, whose logout() this was, rethrows.
ClearToken(ok) ==
    /\ authPc = "clearToken"
    /\ asToken' = (IF ok THEN NoToken ELSE asToken)
    /\ IF ok
       THEN /\ SignedOut
            /\ Ends(IF authOp = "refreshAuth" THEN "rethrown" ELSE "resolved")
       ELSE IF authOp = "load"
       THEN LoadingOff /\ Ends("resolved")
       ELSE /\ Ends("rejected")
            /\ UNCHANGED <<user, isAuthenticated, authIsLoading, authError>>
    /\ UNCHANGED <<secToken, secUser, authToken, ltPc, ltVal, lastSet,
                   meCache, reqToken, respToken, respUser>>
    /\ UNCHANGED otherAuthVars

\* lines 107-111 and notifications.ts 439-443: login(email, password) is
\* called and sends the '/auth/login' request
Login ==
    /\ authPc = "idle"
    /\ authOp' = "login"
    /\ authPc' = "request"
    /\ authResult' = "none"
    /\ authIsLoading' = TRUE
    /\ authError' = Null
    /\ respToken' = NoToken
    /\ respUser' = NoUser
    /\ UNCHANGED <<secToken, secUser, asToken, authToken, ltPc, ltVal,
                   lastSet, meCache, reqToken, user, isAuthenticated>>
    /\ UNCHANGED otherAuthVars

\* notifications.ts 439-445 and lines 124-131: the request settled; with a
\* 2xx body { token, user } api.login calls setAuthToken(token), otherwise
\* it rejects and login sets the error and rethrows
LoginResponse(ok, t, u) ==
    /\ authOp = "login"
    /\ authPc = "request"
    /\ IF ok
       THEN /\ SetAuthToken(t)
            /\ respToken' = t
            /\ respUser' = u
            /\ authPc' = "setItem"
            /\ UNCHANGED <<authOp, authResult, user, isAuthenticated,
                           authIsLoading, authError>>
       ELSE /\ Failed
            /\ Ends("rejected")
            /\ UNCHANGED <<authToken, lastSet, respToken, respUser>>
    /\ UNCHANGED <<secToken, secUser, asToken, ltPc, ltVal, meCache, reqToken>>
    /\ UNCHANGED otherAuthVars

\* notifications.ts 320, 445-446 and lines 111-116: the setItem of
\* setAuthToken settled; api.login returns and login issues the two
\* SecureStore writes
LoginTokenSaved(ok) ==
    /\ authOp = "login"
    /\ authPc = "setItem"
    /\ IF ok
       THEN /\ asToken' = respToken
            /\ authPc' = "secureSet"
            /\ UNCHANGED <<authOp, authResult, user, isAuthenticated,
                           authIsLoading, authError>>
       ELSE /\ Failed
            /\ Ends("rejected")
            /\ UNCHANGED asToken
    /\ UNCHANGED <<secToken, secUser, authToken, ltPc, ltVal, lastSet,
                   meCache, reqToken, respToken, respUser>>
    /\ UNCHANGED otherAuthVars

\* lines 113-131: the two SecureStore writes settled, each on its own
LoginSecured(tokenOk, userOk) ==
    /\ authOp = "login"
    /\ authPc = "secureSet"
    /\ secToken' = (IF tokenOk THEN respToken ELSE secToken)
    /\ secUser' = (IF userOk THEN respUser ELSE secUser)
    /\ IF tokenOk /\ userOk
       THEN SignedIn(respUser) /\ Ends("resolved")
       ELSE Failed /\ Ends("rejected")
    /\ UNCHANGED <<asToken, authToken, ltPc, ltVal, lastSet, meCache,
                   reqToken, respToken, respUser>>
    /\ UNCHANGED otherAuthVars

\* lines 134-138 and notifications.ts 449-451: logout() is called and sends
\* the '/auth/logout' request
LogoutStarted ==
    /\ authPc' = "logoutRequest"
    /\ authIsLoading' = TRUE
    /\ UNCHANGED <<user, isAuthenticated, authError>>

Logout ==
    /\ authPc = "idle"
    /\ authOp' = "logout"
    /\ authResult' = "none"
    /\ LogoutStarted
    /\ UNCHANGED <<secToken, secUser, asToken, authToken, ltPc, ltVal,
                   lastSet, meCache, reqToken, respToken, respUser>>
    /\ UNCHANGED otherAuthVars

\* notifications.ts 451-454: the request settled, with whatever outcome; the
\* finally block of api.logout calls clearAuthToken()
LogoutResponse ==
    /\ authPc = "logoutRequest"
    /\ ClearAuthToken
    /\ authPc' = "logoutRemove"
    /\ UNCHANGED <<secToken, secUser, asToken, ltPc, ltVal, meCache, reqToken,
                   authOp, authResult, respToken, respUser, user,
                   isAuthenticated, authIsLoading, authError>>
    /\ UNCHANGED otherAuthVars

\* notifications.ts 325 and lines 139-142, 99-103: the removeItem settled; a
\* failure is swallowed by logout's catch; the finally block calls
\* clearStoredAuth(), which issues the two SecureStore deletes
LogoutTokenRemoved(ok) ==
    /\ authPc = "logoutRemove"
    /\ asToken' = (IF ok THEN NoToken ELSE asToken)
    /\ authPc' = "clearSecure"
    /\ UNCHANGED <<secToken, secUser, authToken, ltPc, ltVal, lastSet,
                   meCache, reqToken, authOp, authResult, respToken, respUser,
                   user, isAuthenticated, authIsLoading, authError>>
    /\ UNCHANGED otherAuthVars

\* lines 207-209 and notifications.ts 457-460: refreshAuth() is called and
\* sends the '/auth/refresh' request
RefreshAuth ==
    /\ authPc = "idle"
    /\ authOp' = "refreshAuth"
    /\ authPc' = "request"
    /\ authResult' = "none"
    /\ respToken' = NoToken
    /\ respUser' = NoUser
    /\ UNCHANGED <<secToken, secUser, asToken, authToken, ltPc, ltVal,
                   lastSet, meCache, reqToken, user, isAuthenticated,
                   authIsLoading, authError>>
    /\ UNCHANGED otherAuthVars

\* notifications.ts 457-462 and lines 210-212: the request settled: with a
\* token, setAuthToken(token); otherwise the catch calls logout()
RefreshResponse(ok, t) ==
    /\ authOp = "refreshAuth"
    /\ authPc = "request"
    /\ IF ok
       THEN /\ SetAuthToken(t)
            /\ respToken' = t
            /\ authPc' = "setItem"
            /\ UNCHANGED <<user, isAuthenticated, authIsLoading, authError>>
       ELSE /\ LogoutStarted
            /\ UNCHANGED <<authToken, lastSet, respToken>>
    /\ UNCHANGED <<secToken, secUser, asToken, ltPc, ltVal, meCache, reqToken,
                   authOp, authResult, respUser>>
    /\ UNCHANGED otherAuthVars

\* notifications.ts 320, 463 and lines 209-212: the setItem of setAuthToken
\* settled; refreshAuth issues the SecureStore write of the token
RefreshTokenSaved(ok) ==
    /\ authOp = "refreshAuth"
    /\ authPc = "setItem"
    /\ IF ok
       THEN /\ asToken' = respToken
            /\ authPc' = "secureSet"
            /\ UNCHANGED <<user, isAuthenticated, authIsLoading, authError>>
       ELSE /\ LogoutStarted
            /\ UNCHANGED asToken
    /\ UNCHANGED <<secToken, secUser, authToken, ltPc, ltVal, lastSet,
                   meCache, reqToken, authOp, authResult, respToken, respUser>>
    /\ UNCHANGED otherAuthVars

\* lines 209-213: the SecureStore write settled
RefreshSecured(ok) ==
    /\ authOp = "refreshAuth"
    /\ authPc = "secureSet"
    /\ IF ok
       THEN /\ secToken' = respToken
            /\ Ends("resolved")
            /\ UNCHANGED <<user, isAuthenticated, authIsLoading, authError>>
       ELSE /\ LogoutStarted
            /\ UNCHANGED <<secToken, authOp, authResult>>
    /\ UNCHANGED <<secUser, asToken, authToken, ltPc, ltVal, lastSet, meCache,
                   reqToken, respToken, respUser>>
    /\ UNCHANGED otherAuthVars

\* ---- molecule viewer: parseMoleculeData (src/unnamed/part_001) ----

MaxAtoms == 3        \* atoms in the `atoms` prop
MaxLines == 2        \* lines of the `pdbData` prop
MaxFrames == 2       \* frames of the render loop that are followed

BondThreshold == 19  \* 1.9, in tenths
NaN == -100000       \* what parseFloat returns for a field that holds no number

Styles == {"ball-stick", "space-fill", "wireframe"}

SeqsUpTo(S, n) == UNION {[1..k -> S] : k \in 0..n}

Atom(el, px, py, pz) == [element |-> el, x |-> px, y |-> py, z |-> pz]
Bond(a1, a2, ord) == [atom1 |-> a1, atom2 |-> a2, order |-> ord]

\* atoms a caller passes: at 1.0, exactly 1.9 (on an axis and off it), below
\* 1.9 with all three coordinates differing, and 5.0 from the origin
AtomPool ==
    { Atom("C", 0, 0, 0), Atom("H", 10, 0, 0), Atom("O", 19, 0, 0),
      Atom("N", 6, 18, 1), Atom("C", 12, 10, 8), Atom("Xx", 50, 0, 0) }

\* bond lists a caller passes along with atoms
BondPool ==
    { <<Bond(0, 1, 1)>>, <<Bond(0, 1, 2)>> }

\* ---- PDB text ----

Digits == "0123456789"

RECURSIVE NatToString(_)
NatToString(n) ==
    IF n < 10 THEN SubSeq(Digits, n + 1, n + 1)
    ELSE NatToString(n \div 10) \o SubSeq(Digits, (n % 10) + 1, (n % 10) + 1)

RECURSIVE Spaces(_)
Spaces(n) == IF n <= 0 THEN "" ELSE " " \o Spaces(n - 1)

PadLeft(str, n) == Spaces(n - Len(str)) \o str
PadRight(str, n) == str \o Spaces(n - Len(str))

\* a coordinate (in tenths) the way PDB files write it, %8.3f; a field that
\* overflowed holds asterisks
Fixed3(v) ==
    IF v = NaN THEN "********"
    ELSE PadLeft((IF v < 0 THEN "-" ELSE "")
                 \o NatToString((IF v < 0 THEN -v ELSE v) \div 10) \o "."
                 \o NatToString((IF v < 0 THEN -v ELSE v) % 10) \o "00", 8)

\* a record line of PDB text: record name in columns 1-6, atom name in
\* 13-16, x, y, z in 31-38, 39-46, 47-54, element symbol in 77-78
PdbLine(tg, name, px, py, pz, el) ==
    PadRight(tg, 6) \o "    1 " \o PadRight(name, 4) \o " ALA A   1    "
    \o Fixed3(px) \o Fixed3(py) \o Fixed3(pz) \o "  1.00  0.00"
    \o Spaces(10) \o PadLeft(el, 2)

\* what the lines of a file say: record name, atom name, coordinates in
\* tenths (NaN: not a number), element symbol (may be blank)
PdbRecords ==
    { [tag |-> "ATOM", name |-> " CA", x |-> 0, y |-> 0, z |-> 0, element |-> "C"],
      [tag |-> "HETATM", name |-> " O", x |-> 10, y |-> 0, z |-> 0, element |-> "O"],
      [tag |-> "ATOM", name |-> " N", x |-> 0, y |-> 15, z |-> 0, element |-> ""],
      [tag |-> "ATOM", name |-> " H", x |-> NaN, y |-> 0, z |-> 0, element |-> "H"],
      [tag |-> "ATOM", name |-> "FE", x |-> -1234, y |-> 5, z |-> 107, element |-> "FE"],
      [tag |-> "REMARK", name |-> " C", x |-> 0, y |-> 0, z |-> 0, element |-> "C"] }

LineOf(r) == PdbLine(r.tag, r.name, r.x, r.y, r.z, r.element)

RECURSIVE JoinLines(_)
JoinLines(lines) ==
    IF Len(lines) = 1 THEN lines[1]
    ELSE lines[1] \o "\n" \o JoinLines(Tail(lines))

\* the text of a file with the lines of these records
PdbFile(records) == JoinLines([i \in 1..Len(records) |-> LineOf(records[i])])

\* texts a caller passes as pdbData
LinePool == {PdbFile(rs) : rs \in SeqsUpTo(PdbRecords, MaxLines) \ {<<>>}}

\* line 83: String.prototype.split('\n')
RECURSIVE SplitLines(_)
SplitLines(str) ==
    LET breaks == {i \in 1..Len(str) : SubSeq(str, i, i) = "\n"}
    IN IF breaks = {} THEN <<str>>
       ELSE LET k == CHOOSE i \in breaks : \A j \in breaks : i <= j
            IN <<SubSeq(str, 1, k - 1)>> \o SplitLines(SubSeq(str, k + 1, Len(str)))

\* String.prototype.substring(a, b) for 0 <= a <= b
Substring(str, a, b) ==
    IF a >= Len(str) THEN ""
    ELSE SubSeq(str, a + 1, IF b < Len(str) THEN b ELSE Len(str))

\* String.prototype.startsWith
StartsWith(str, prefix) ==
    Len(str) >= Len(prefix) /\ SubSeq(str, 1, Len(prefix)) = prefix

RECURSIVE TrimStart(_)
TrimStart(str) ==
    IF str # "" /\ Head(str) = " " THEN TrimStart(Tail(str)) ELSE str

RECURSIVE TrimEnd(_)
TrimEnd(str) ==
    IF str # "" /\ SubSeq(str, Len(str), Len(str)) = " "
    THEN TrimEnd(SubSeq(str, 1, Len(str) - 1))
    ELSE str

\* String.prototype.trim
Trim(str) == TrimEnd(TrimStart(str))

IsDigit(c) == \E d \in 1..10 : SubSeq(Digits, d, d) = c
DigitValue(c) == (CHOOSE d \in 1..10 : SubSeq(Digits, d, d) = c) - 1

\* the digits at the front of str: their value, their number, and the rest
RECURSIVE ScanDigits(_, _, _)
ScanDigits(str, value, count) ==
    IF str # "" /\ IsDigit(Head(str))
    THEN ScanDigits(Tail(str), value * 10 + DigitValue(Head(str)), count + 1)
    ELSE [value |-> value, count |-> count, rest |-> str]

RECURSIVE Pow10(_)
Pow10(k) == IF k = 0 THEN 1 ELSE 10 * Pow10(k - 1)

\* parseFloat: leading blanks, a sign, digits, a point, digits; whatever
\* follows is ignored, and without a digit the result is NaN.  The result is
\* in tenths (the texts hold whole tenths); exponents are not modelled.
ParseFloat(str) ==
    LET t == TrimStart(str)
        signed == t # "" /\ Head(t) \in {"-", "+"}
        u == IF signed THEN Tail(t) ELSE t
        int == ScanDigits(u, 0, 0)
        frac == IF int.rest # "" /\ Head(int.rest) = "."
                THEN ScanDigits(Tail(int.rest), 0, 0)
                ELSE [value |-> 0, count |-> 0, rest |-> int.rest]
        tenths == int.value * 10 + (frac.value * 10) \div Pow10(frac.count)
    IN IF int.count + frac.count = 0 THEN NaN
       ELSE IF signed /\ Head(t) = "-" THEN -tenths ELSE tenths

\* lines 88-90: the coordinate fields
XField(line) == Substring(line, 30, 38)
YField(line) == Substring(line, 38, 46)
ZField(line) == Substring(line, 46, 54)

ElementOfColumns77(line) == Trim(Substring(line, 76, 78))

\* line 87: columns 77-78, or columns 13-14 when those are blank
ElementOf(line) ==
    IF Trim(Substring(line, 76, 78)) # "" THEN Trim(Substring(line, 76, 78))
    ELSE Trim(Substring(line, 12, 14))

\* lines 68-71 and 99-102: dx * dx + dy * dy + dz * dz, in hundredths; NaN
\* when a coordinate is NaN
DistanceSquared(a, b) ==
    IF NaN \in {a.x, a.y, a.z, b.x, b.y, b.z}
    THEN NaN
    ELSE (a.x - b.x) * (a.x - b.x) + (a.y - b.y) * (a.y - b.y)
         + (a.z - b.z) * (a.z - b.z)

IsBondedInclusive(a, b) ==
    /\ DistanceSquared(a, b) # NaN
    /\ DistanceSquared(a, b) <= BondThreshold * BondThreshold

\* lines 71-72 and 102-103: Math.sqrt(d2) < 1.9, which for d2 >= 0 is
\* d2 < 1.9 * 1.9; every comparison with NaN is false
IsBonded(a, b) ==
    /\ DistanceSquared(a, b) # NaN
    /\ DistanceSquared(a, b) < BondThreshold * BondThreshold

\* lines 66-76 and 97-107: the two nested loops, at 1-based positions i < j
\* (the code's indices are i - 1 and j - 1)
RECURSIVE BondLoop(_, _, _)
BondLoop(atoms, i, j) ==
    IF i > Len(atoms) THEN <<>>
    ELSE IF j > Len(atoms) THEN BondLoop(atoms, i + 1, i + 2)
    ELSE (IF IsBonded(atoms[i], atoms[j])
          THEN <<Bond(i - 1, j - 1, 1)>>
          ELSE <<>>) \o BondLoop(atoms, i, j + 1)

InferBondsFromSelf(atoms) == BondLoop(atoms, 1, 1)

InferBonds(atoms) == BondLoop(atoms, 1, 2)

\* lines 85-93: the atoms of the ATOM and HETATM lines, in order
RECURSIVE ParseLines(_)
ParseLines(lines) ==
    IF lines = <<>> THEN <<>>
    ELSE LET line == Head(lines)
         IN (IF StartsWith(line, "ATOM") \/ StartsWith(line, "HETATM")
             THEN <<Atom(ElementOf(line), ParseFloat(XField(line)),
                         ParseFloat(YField(line)), ParseFloat(ZField(line)))>>
             ELSE <<>>) \o ParseLines(Tail(lines))

\* lines 82-93
ParsePdb(text) == ParseLines(SplitLines(text))

\* lines 113-126
DemoAtoms ==
    << Atom("C", 0, 0, 0), Atom("N", 14, 0, 0), Atom("C", 21, 12, 0),
       Atom("N", 14, 24, 0), Atom("C", 0, 24, 0), Atom("C", -7, 12, 0),
       Atom("O", 21, -12, 0), Atom("N", -7, 36, 0), Atom("C", 0, 48, 0),
       Atom("N", 14, 48, 0), Atom("C", 21, 36, 0), Atom("O", 33, 36, 0) >>

\* lines 128-142
DemoBonds ==
    << Bond(0, 1, 1), Bond(1, 2, 1), Bond(2, 3, 2), Bond(3, 4, 1),
       Bond(4, 5, 1), Bond(5, 0, 2), Bond(1, 6, 1), Bond(4, 7, 1),
       Bond(7, 8, 1), Bond(8, 9, 2), Bond(9, 10, 1), Bond(10, 3, 1),
       Bond(10, 11, 2) >>

\* lines 59-145; an array, even an empty one, is truthy
ParseMoleculeData(atomsArg, pdbArg) ==
    IF atomsArg # <<>>
    THEN [atoms |-> atomsArg[1], bonds |-> InferBonds(atomsArg[1])]
    ELSE IF pdbArg # <<>>
    THEN [atoms |-> ParsePdb(pdbArg[1]), bonds |-> InferBonds(ParsePdb(pdbArg[1]))]
    ELSE [atoms |-> DemoAtoms, bonds |-> DemoBonds]

\* ---- molecule viewer: the scene ----

\* lines 8-20, as the six hex digits
ATOM_COLORS(el) ==
    CASE el = "C" -> "909090" [] el = "N" -> "3050f8" [] el = "O" -> "ff0d0d"
      [] el = "H" -> "ffffff" [] el = "S" -> "ffff30" [] el = "P" -> "ff8000"
      [] el = "F" -> "90e050" [] el = "Cl" -> "1ff01f" [] el = "Br" -> "a62929"
      [] el = "I" -> "940094" [] OTHER -> "ff69b4"

\* lines 22-30, in hundredths
ATOM_RADII(el) ==
    CASE el = "C" -> 77 [] el = "N" -> 75 [] el = "O" -> 73 [] el = "H" -> 37
      [] el = "S" -> 102 [] el = "P" -> 106 [] OTHER -> 80

\* lines 221-222, in thousandths
Radius(el, st) == ATOM_RADII(el) * (IF st = "space-fill" THEN 15 ELSE 4)

RECURSIVE Gcd(_, _)
Gcd(a, b) == IF b = 0 THEN a ELSE Gcd(b, a % b)

Abs(a) == IF a < 0 THEN -a ELSE a

\* the real number num / den (den > 0), in lowest terms
Fraction(num, den) ==
    LET g == Gcd(Abs(num), den)
    IN [num |-> num \div g, den |-> den \div g]

NotANumber == [num |-> NaN, den |-> 1]

RECURSIVE SumOf(_, _)
SumOf(atoms, c) ==
    IF atoms = <<>> THEN 0
    ELSE LET rest == SumOf(Tail(atoms), c)
             v == IF c = "x" THEN Head(atoms).x
                  ELSE IF c = "y" THEN Head(atoms).y ELSE Head(atoms).z
         IN IF v = NaN \/ rest = NaN THEN NaN ELSE v + rest

CenterUnaveraged(atoms) ==
    [x |-> SumOf(atoms, "x"), y |-> SumOf(atoms, "y"), z |-> SumOf(atoms, "z"),
     n |-> 1]

\* lines 208-216: centerX is x / n, and so on
Center(atoms) ==
    [x |-> SumOf(atoms, "x"), y |-> SumOf(atoms, "y"), z |-> SumOf(atoms, "z"),
     n |-> Len(atoms)]

\* v - sum / n
Minus(v, sum, n) ==
    IF v = NaN \/ sum = NaN THEN NotANumber ELSE Fraction(v * n - sum, n)

\* lines 233-235, 248-256
Centered(atom, c) ==
    [x |-> Minus(atom.x, c.x, c.n), y |-> Minus(atom.y, c.y, c.n),
     z |-> Minus(atom.z, c.z, c.n)]

\* lines 219-239: one sphere per atom, whatever the style
Spheres(atoms, st) ==
    [i \in 1..Len(atoms) |->
        [color |-> ATOM_COLORS(atoms[i].element),
         radius |-> Radius(atoms[i].element, st),
         position |-> Centered(atoms[i], Center(atoms))]]

\* lines 242-276: one cylinder per bond unless the style is space-fill
Cylinders(atoms, bonds, st) ==
    IF st = "space-fill" THEN <<>>
    ELSE [i \in 1..Len(bonds) |->
            [bond |-> bonds[i],
             start |-> Centered(atoms[bonds[i].atom1 + 1], Center(atoms)),
             end |-> Centered(atoms[bonds[i].atom2 + 1], Center(atoms))]]

\* lines 166-296: GLView hands over its context; the function has no await,
\* so it runs to its end in one step and leaves the first frame scheduled.
\* GLView creates the context asynchronously, and nothing in the component
\* keeps the callback from running after the component was unmounted.
ContextCreate ==
    /\ glPc = "waiting"
    /\ glPc' = "created"
    /\ LET parsed == ParseMoleculeData(inputAtoms, pdbData)
       IN /\ molAtoms' = parsed.atoms
          /\ molBonds' = parsed.bonds
          /\ spheres' = Spheres(parsed.atoms, style)
          /\ cylinders' = Cylinders(parsed.atoms, parsed.bonds, style)
    /\ viewerLoading' = FALSE
    /\ timeoutRef' = TRUE
    /\ framePending' = TRUE
    /\ frames' = 1
    /\ UNCHANGED <<inputAtoms, pdbData, inputBonds, style, viewerMounted>>
    /\ UNCHANGED <<syncVars, hookVars, apiVars, authVars>>

\* lines 284-294: the scheduled frame runs and schedules the next one
Animate ==
    /\ framePending
    /\ frames < MaxFrames
    /\ timeoutRef' = TRUE
    /\ framePending' = TRUE
    /\ frames' = frames + 1
    /\ UNCHANGED <<inputAtoms, pdbData, inputBonds, style, viewerMounted,
                   glPc, molAtoms, molBonds, spheres, cylinders,
                   viewerLoading>>
    /\ UNCHANGED <<syncVars, hookVars, apiVars, authVars>>

\* lines 303-309: the cleanup of the mount effect
UnmountViewer ==
    /\ viewerMounted
    /\ viewerMounted' = FALSE
    /\ framePending' = IF timeoutRef THEN FALSE ELSE framePending
    /\ UNCHANGED <<inputAtoms, pdbData, inputBonds, style, glPc, molAtoms,
                   molBonds, spheres, cylinders, timeoutRef, viewerLoading,
                   frames>>
    /\ UNCHANGED <<syncVars, hookVars, apiVars, authVars>>

\* ---- specifications ----

SyncInit ==
    /\ queue = <<>>
    /\ qPc = [k \in Ops |-> "new"]
    /\ qSnap = [k \in Ops |-> <<>>]
    /\ syncPc = [p \in Passes |-> "idle"]
    /\ pending = [p \in Passes |-> <<>>]
    /\ idx = [p \in Passes |-> 0]
    /\ remaining = [p \in Passes |-> <<>>]
    /\ attempted = [p \in Passes |-> <<>>]
    /\ results = [p \in Passes |-> <<>>]
    /\ queuedLog = <<>>
    /\ replayed = {}

\* nothing is persisted and no instance of the hook has been rendered yet
HookInit ==
    /\ store = <<>>
    /\ now = 0
    /\ hk = "none"
    /\ swr = TRUE
    /\ syncOnReconnect \in BOOLEAN
    /\ data = NoData
    /\ isLoading = TRUE
    /\ isStale = FALSE
    /\ isOffline = FALSE
    /\ error = Null
    /\ loadPc = "idle"
    /\ cached = <<>>
    /\ loadKeep = FALSE
    /\ refPc = "idle"
    /\ refKeep = FALSE
    /\ refreshCl = FALSE
    /\ listenerCl = FALSE
    /\ fetched = NoData
    /\ clearPc = "idle"
    /\ listeners = 0
    /\ otherStore = <<>>

\* a viewer was rendered with some props; GLView has not created its
\* context yet.  A caller that passes bonds passes them along with the
\* atoms they index.
ViewerInit ==
    /\ inputAtoms \in {<<>>} \cup {<<l>> : l \in SeqsUpTo(AtomPool, MaxAtoms)}
    /\ pdbData \in {<<>>} \cup {<<text>> : text \in LinePool}
    /\ inputAtoms # <<>> =>
          pdbData \in {<<>>, <<PdbLine("ATOM", " CA", 0, 0, 0, "C")>>}
    /\ inputBonds \in {<<>>} \cup {<<b>> : b \in BondPool}
    /\ inputBonds # <<>> => inputAtoms # <<>> /\ Len(inputAtoms[1]) >= 2
    /\ style \in Styles
    /\ viewerMounted = TRUE
    /\ glPc = "waiting"
    /\ molAtoms = <<>>
    /\ molBonds = <<>>
    /\ spheres = <<>>
    /\ cylinders = <<>>
    /\ timeoutRef = FALSE
    /\ framePending = FALSE
    /\ viewerLoading = TRUE
    /\ frames = 0

\* the viewer rendered without props, which shows the demo molecule
DefaultViewer ==
    /\ inputAtoms = <<>>
    /\ pdbData = <<>>
    /\ inputBonds = <<>>
    /\ style = "ball-stick"

\* the ApiService was constructed; nothing is cached
ApiInit ==
    /\ apiStore = <<>>
    /\ apiPc = "idle"
    /\ apiOut = "none"
    /\ apiData = NoData
    /\ apiStart = 0

\* a fresh install: nothing is persisted; the app has started
AuthInit ==
    /\ secToken = NoToken
    /\ secUser = NoUser
    /\ asToken = NoToken
    /\ authToken = NoToken
    /\ ltPc = "getItem"
    /\ ltVal = NoToken
    /\ lastSet = Unset
    /\ meCache = <<>>
    /\ reqToken = NoToken
    /\ authOp = "load"
    /\ authPc = "secureGet"
    /\ authResult = "none"
    /\ respToken = NoToken
    /\ respUser = NoUser
    /\ user = NoUser
    /\ isAuthenticated = FALSE
    /\ authIsLoading = TRUE
    /\ authError = Null

Init == SyncInit /\ HookInit /\ ViewerInit /\ ApiInit /\ AuthInit

SyncNext ==
    \/ \E k \in Ops : QueueRead(k)
    \/ \E k \in Ops : QueueWrite(k)
    \/ \E p \in Passes : SyncCall(p)
    \/ \E p \in Passes : SyncRead(p)
    \/ \E p \in Passes, o \in Outcomes : SyncResponse(p, o)

CacheNext ==
    \/ \E opt \in BOOLEAN : Mount(opt)
    \/ Unmount
    \/ LoadResume
    \/ \E v \in Values : LoadFetchOk(v)
    \/ LoadFetchFail
    \/ LoadSettled
    \/ Refresh
    \/ \E v \in Values : RefreshFetchOk(v)
    \/ RefreshFetchFail
    \/ RefreshSettled
    \/ FetcherChanged
    \/ \E nowOnline \in BOOLEAN : NetEvent(nowOnline)
    \/ ClearCache
    \/ ClearResume
    \/ Tick

ViewerNext ==
    \/ ContextCreate
    \/ Animate
    \/ UnmountViewer

ApiNext ==
    \/ ApiRequest
    \/ ApiCacheResume
    \/ ApiRemoved
    \/ \E ok \in BOOLEAN : ApiResponse(ok)
    \/ ApiNetworkError
    \/ ApiAbort
    \/ \E v \in Values : ApiJson(v)
    \/ ApiReturn
    \/ Tick

AuthNext ==
    \/ AppStart
    \/ \E ok \in BOOLEAN : LoadTokenRead(ok)
    \/ LoadTokenResume
    \/ \E ok \in BOOLEAN : LoadStoredRead(ok)
    \/ \E ok \in BOOLEAN : LoadStoredTokenSaved(ok)
    \/ ProfileCacheRead
    \/ \E ok \in BOOLEAN, p \in Users : ProfileResponse(ok, p)
    \/ \E ok \in BOOLEAN, t \in Tokens : LoadStoredRefreshed(ok, t)
    \/ \E ok \in BOOLEAN : LoadStoredRefreshSaved(ok)
    \/ \E tokenOk, userOk \in BOOLEAN : ClearSecure(tokenOk, userOk)
    \/ \E ok \in BOOLEAN : ClearToken(ok)
    \/ Login
    \/ \E ok \in BOOLEAN, t \in Tokens, u \in Users : LoginResponse(ok, t, u)
    \/ \E ok \in BOOLEAN : LoginTokenSaved(ok)
    \/ \E tokenOk, userOk \in BOOLEAN : LoginSecured(tokenOk, userOk)
    \/ Logout
    \/ LogoutResponse
    \/ \E ok \in BOOLEAN : LogoutTokenRemoved(ok)
    \/ RefreshAuth
    \/ \E ok \in BOOLEAN, t \in Tokens : RefreshResponse(ok, t)
    \/ \E ok \in BOOLEAN : RefreshTokenSaved(ok)
    \/ \E ok \in BOOLEAN : RefreshSecured(ok)
    \/ Tick

Next == SyncNext \/ CacheNext \/ Resubscribe \/ ViewerNext \/ ApiNext \/ AuthNext

\* the whole layer
Spec == Init /\ [][Next]_vars

\* the pending-operation queue alone: syncPendingOperations is exported, so a
\* pass can be started at any moment whatever the hook does
SyncSpecInit == Init /\ syncOnReconnect = TRUE /\ DefaultViewer
SyncSpec == SyncSpecInit /\ [][SyncNext]_vars

\* the queue again, now with what is bound to happen: AsyncStorage completes
\* every call, so the continuations after getItem and setItem do run.  The
\* network owes nothing: a response to a fetch may never come.
ReplaySpec ==
    /\ SyncSpecInit
    /\ [][SyncNext]_vars
    /\ WF_vars(\E k \in Ops : QueueWrite(k))
    /\ WF_vars(\E p \in Passes : SyncRead(p))

\* one call-site of the hook with syncOnReconnect: false, whose listener
\* only tracks isOffline
CacheSpecInit == Init /\ syncOnReconnect = FALSE /\ DefaultViewer
CacheSpec == CacheSpecInit /\ [][CacheNext]_vars

\* one call-site of the hook with syncOnReconnect: true (the default) and its
\* NetInfo listener; the queue stays empty, so a pass that was started ends
\* at its getItem
NetNext ==
    \/ \E opt \in BOOLEAN : Mount(opt)
    \/ Unmount
    \/ LoadResume
    \/ \E v \in Values : LoadFetchOk(v)
    \/ LoadFetchFail
    \/ LoadSettled
    \/ \E nowOnline \in BOOLEAN : NetEvent(nowOnline)
    \/ Resubscribe
    \/ \E p \in Passes : SyncRead(p)

NetSpecInit == Init /\ syncOnReconnect = TRUE /\ DefaultViewer
NetSpec == NetSpecInit /\ [][NetNext]_vars

\* cached GET requests of the ApiService for one cache key
ApiSpecInit == Init /\ syncOnReconnect = FALSE /\ DefaultViewer
ApiSpec == ApiSpecInit /\ [][ApiNext]_vars

\* the two caches side by side: the reads of the hook (one per mount) and
\* the cached requests of the ApiService, on the same clock
FreshNext ==
    \/ \E opt \in BOOLEAN : Mount(opt)
    \/ Unmount
    \/ LoadResume
    \/ \E v \in Values : LoadFetchOk(v)
    \/ LoadFetchFail
    \/ LoadSettled
    \/ ApiRequest
    \/ ApiCacheResume
    \/ ApiRemoved
    \/ \E ok \in BOOLEAN : ApiResponse(ok)
    \/ ApiNetworkError
    \/ ApiAbort
    \/ \E v \in Values : ApiJson(v)
    \/ ApiReturn
    \/ Tick

FreshSpecInit == Init /\ syncOnReconnect = FALSE /\ DefaultViewer
FreshSpec == FreshSpecInit /\ [][FreshNext]_vars

\* one call-site of the hook whose `key` argument changes between renders
KeyNext ==
    \/ \E opt \in BOOLEAN : Mount(opt)
    \/ Unmount
    \/ KeyChange
    \/ LoadResume
    \/ \E v \in Values : LoadFetchOk(v)
    \/ LoadFetchFail
    \/ LoadSettled
    \/ Refresh
    \/ \E v \in Values : RefreshFetchOk(v)
    \/ RefreshFetchFail
    \/ RefreshSettled
    \/ Tick

KeySpecInit == Init /\ syncOnReconnect = FALSE /\ DefaultViewer
KeySpec == KeySpecInit /\ [][KeyNext]_vars

\* the ApiService singleton and one AuthProvider, over restarts of the app
AuthSpecInit == Init /\ syncOnReconnect = FALSE /\ DefaultViewer
AuthSpec == AuthSpecInit /\ [][AuthNext]_vars

\* one MoleculeViewer, from its first render to its unmount
ViewerSpecInit == Init /\ syncOnReconnect = FALSE
ViewerSpec == ViewerSpecInit /\ [][ViewerNext]_vars

\* ---------------------------------------------------------------------
\* Properties of the pending-operation queue
\* ---------------------------------------------------------------------

RECURSIVE FailedOps(_, _)
\* the operations of seq whose replay did not succeed, in their order
FailedOps(seq, ok) ==
    IF seq = <<>> THEN <<>>
    ELSE IF Head(ok) THEN FailedOps(Tail(seq), Tail(ok))
         ELSE <<Head(seq)>> \o FailedOps(Tail(seq), Tail(ok))

RECURSIVE IsSubseq(_, _)
\* s occurs in t as a (not necessarily contiguous) subsequence
IsSubseq(s, t) ==
    IF s = <<>> THEN TRUE
    ELSE IF t = <<>> THEN FALSE
    ELSE IF Head(s) = Head(t) THEN IsSubseq(Tail(s), Tail(t))
         ELSE IsSubseq(s, Tail(t))

InProgress(p) == syncPc[p] \in {"getItem", "fetch"}
PassEnds(p) == syncPc[p] = "fetch" /\ syncPc'[p] = "done"
Sent(p) == {attempted[p][i] : i \in 1..Len(attempted[p])}

\* C1: a pass sends every operation of the list it read exactly once, in
\* list order, whatever the earlier outcomes were, and the list it persists
\* when it ends is exactly the operations whose replay failed, in order.
C1_SyncKeepsExactlyFailed ==
    [][\A p \in Passes : PassEnds(p) =>
          /\ attempted'[p] = pending[p]
          /\ Len(results'[p]) = Len(pending[p])
          /\ queue' = FailedOps(pending[p], results'[p])]_vars

\* a pass over two operations ended: the first failed, the second succeeded
\* after it, and only the first is left in the queue
C1_Witness ==
    \E p \in Passes :
        /\ syncPc[p] = "done"
        /\ Len(pending[p]) = 2
        /\ attempted[p] = pending[p]
        /\ results[p] = <<FALSE, TRUE>>
        /\ queue = <<pending[p][1]>>

\* C2: every operation whose queueOfflineOperation completed and that no
\* pass replayed successfully is still in the persisted queue, and these
\* operations appear there in insertion order.
C2_QueuedUntilReplayed ==
    IsSubseq(SelectSeq(queuedLog, LAMBDA k : k \notin replayed), queue)

\* C3: at most one pass is in progress at any time, and no operation has
\* been sent by two passes that are both in progress.
C3_SinglePassInProgress ==
    /\ Cardinality({p \in Passes : InProgress(p)}) <= 1
    /\ \A p, q \in Passes :
          (p # q /\ InProgress(p) /\ InProgress(q)) => Sent(p) \cap Sent(q) = {}

\* ---------------------------------------------------------------------
\* Properties of the hook
\* ---------------------------------------------------------------------

\* the steps of a read (loadCachedData called on mount) and of a refresh
ReadResumes == loadPc = "getItem" /\ loadPc' # "getItem"
ReadFetchFails == loadPc = "fetch" /\ loadPc' = "done"
ReadFetchResolves == loadPc = "fetch" /\ loadPc' = "setItem"
RefreshFetchFails == refPc = "fetch" /\ refPc' = "idle"
RefreshFetchResolves == refPc = "fetch" /\ refPc' = "setItem"
FetchesInFlight ==
    (IF loadPc = "fetch" THEN 1 ELSE 0) + (IF refPc = "fetch" THEN 1 ELSE 0)
FoundExpired == cached # <<>> /\ IsExpired(Entry(cached), now)

\* C4: when the read found a persisted entry older than its ttl and the
\* fetcher then fails, the read ends with the cached data, isStale = true
\* and error still null.
C4_StaleInsteadOfError ==
    [][(Mounted /\ ReadFetchFails /\ FoundExpired) =>
          /\ data' = Entry(cached).data
          /\ isStale'
          /\ error' = Null]_vars

\* C5: a read that found nothing persisted and whose fetcher resolves ends
\* with the fetcher's payload, isStale = false and error = null, the payload
\* being persisted with the call-site's ttl; and a read that finds an entry
\* no older than that ttl hands out the entry's data, not stale, without
\* starting the fetcher.
C5_CacheRoundTrip ==
    [][/\ (Mounted /\ ReadFetchResolves /\ cached = <<>>) =>
             /\ data' = fetched' /\ ~isStale' /\ error' = Null
             /\ store' = <<[data |-> fetched', timestamp |-> now, ttl |-> TtlTicks]>>
       /\ (Mounted /\ ReadResumes /\ store # <<>>
             /\ now - Entry(store).timestamp <= TtlTicks) =>
             /\ data' = Entry(store).data /\ ~isStale' /\ error' = error
             /\ loadPc' = "done"
             /\ FetchesInFlight' = FetchesInFlight]_vars

\* a second read, at the very end of the ttl, ended with the persisted payload
\* and never called the fetcher
C5_Witness ==
    /\ Mounted /\ loadPc = "done" /\ refPc = "idle"
    /\ cached # <<>> /\ cached = store
    /\ now - Entry(cached).timestamp = TtlTicks
    /\ data = Entry(cached).data /\ data = fetched
    /\ ~isStale /\ error = Null /\ ~isLoading

\* C6: whenever the fetcher throws, in a read or in a refresh, the error is
\* put in the error field and the data held is left as it was, whatever the
\* connectivity and whether or not data is held.
C6_ErrorAlwaysSurfaced ==
    [][(Mounted /\ (ReadFetchFails \/ RefreshFetchFails)) =>
          (error' = FetchError /\ data' = data)]_vars

\* C6 as amended: the data held is always left as it was; the error is put
\* in the error field unless the failing fetchAndCache closed over
\* isOffline = true together with non-null data, and then isStale is set and
\* the error field is left as it was.
C6_ErrorSurfacedUnlessOfflineWithData ==
    [][/\ (Mounted /\ ReadFetchFails) =>
             /\ data' = data
             /\ IF loadKeep THEN isStale' /\ error' = error
                ELSE error' = FetchError /\ isStale' = isStale
       /\ (Mounted /\ RefreshFetchFails) =>
             /\ data' = data
             /\ IF refKeep THEN isStale' /\ error' = error
                ELSE error' = FetchError /\ isStale' = isStale]_vars

\* a refresh whose closure saw the device offline with data has failed: the
\* data is kept, flagged stale, and no error is shown
C6_Witness ==
    /\ Mounted /\ refPc = "idle" /\ refKeep /\ loadPc = "done"
    /\ data # NoData /\ isStale /\ error = Null /\ ~isLoading

C8_RevalidationSupersedes ==
    [][(ReadFetchResolves \/ RefreshFetchResolves) =>
          /\ Mounted => (data' = fetched' /\ ~isStale' /\ error' = Null)
          /\ store' # <<>>
          /\ Entry(store').data = fetched'
          /\ Entry(store').timestamp = now]_vars

\* a refresh replaced data that was held, stale and persisted at an earlier
\* time by a different payload
C8_Witness ==
    /\ Mounted /\ refPc = "setItem"
    /\ cached # <<>> /\ Entry(cached).data # fetched
    /\ Entry(cached).timestamp < now
    /\ data = fetched /\ ~isStale /\ error = Null
    /\ store = <<[data |-> fetched, timestamp |-> now, ttl |-> TtlTicks]>>

\* C9: a read that finds a persisted entry hands its data to the caller when
\* the storage read completes, before the fetcher completes, under every
\* setting of the options.
C9_EntrySurfacedBeforeFetch ==
    [][(Mounted /\ ReadResumes /\ store # <<>>) =>
          data' = Entry(store).data]_vars

\* C9 as amended: it does so when the entry is not older than its ttl, or
\* when staleWhileRevalidate is set; an expired entry is then flagged stale
\* while the fetcher has only been started.
C9_EntrySurfacedUnlessSwrOff ==
    [][(Mounted /\ ReadResumes /\ store # <<>>
          /\ (swr \/ ~IsExpired(Entry(store), now))) =>
          /\ data' = Entry(store).data
          /\ isStale' = IsExpired(Entry(store), now)
          /\ IsExpired(Entry(store), now) => loadPc' = "fetch"]_vars

\* the expired entry is on display, flagged stale, while the fetcher is in flight
C9_Witness ==
    /\ Mounted /\ loadPc = "fetch" /\ swr
    /\ FoundExpired
    /\ data = Entry(cached).data /\ isStale /\ isLoading

\* C10: no more than one fetcher invocation is in flight for the key.
C10_SingleFetchInFlight == FetchesInFlight <= 1

\* ---------------------------------------------------------------------
\* Properties of the NetInfo listener
\* ---------------------------------------------------------------------

\* the hook's isOffline is the negation of the last reachability it was told
WentOnline == Mounted /\ isOffline /\ ~isOffline'
PassStarted == \E p \in Passes : syncPc[p] # "getItem" /\ syncPc'[p] = "getItem"

\* C11: every reachability event that takes a mounted hook with
\* syncOnReconnect from offline to online calls syncPendingOperations,
\* whether or not the listener was re-subscribed since the previous event.
C11_ReconnectAlwaysSyncs ==
    [][(WentOnline /\ syncOnReconnect) => PassStarted]_vars

ClearCompletes == clearPc = "removeItem" /\ clearPc' = "idle"
Quiet == loadPc = "done" /\ refPc = "idle"

\* C16: when clearCache completes -- here with no read and no refresh in
\* flight -- the persisted entry is gone and the hook is in the Empty state:
\* data = null, isStale = false, error = null and isLoading = false.
C16_ClearResetsToEmpty ==
    [][(Mounted /\ Quiet /\ ClearCompletes) =>
          /\ store' = <<>>
          /\ data' = NoData
          /\ ~isStale'
          /\ error' = Null
          /\ ~isLoading']_vars

\* C17: refresh always invokes the fetcher: in every state of a mounted
\* hook -- entry fresh, stale or absent, error shown or not, clearCache run
\* or running -- a call of refresh puts a fetcher invocation in flight.
C17_RefreshAlwaysFetches ==
    (Mounted /\ refPc = "idle") => ENABLED (Refresh /\ refPc' = "fetch")

\* a refresh has its fetcher in flight while the persisted entry is fresh
\* and the read that found it is over
C17_Witness ==
    /\ Mounted /\ refPc = "fetch" /\ loadPc = "done"
    /\ store # <<>> /\ ~IsExpired(Entry(store), now)
    /\ cached = store /\ data = Entry(store).data

ApiReads == apiPc = "getItem" /\ apiPc' # "getItem"
IsFresh(entry) == now - entry.timestamp <= entry.ttl

\* C18: an entry is fresh exactly when now - timestamp <= ttl.  A read of
\* the hook that finds a fresh entry hands it out with isStale = false and
\* starts no fetch; one that finds an older entry starts the fetch and, if
\* it surfaces the entry, flags it stale; after such a read the flag stays
\* until a revalidation succeeds (or the hook holds no data any more).  The
\* ApiService returns a fresh entry as a cache hit and removes an older one.
C18_FreshIffWithinTtl ==
    [][/\ (Mounted /\ ReadResumes /\ store # <<>>) =>
             IF IsFresh(Entry(store))
             THEN /\ data' = Entry(store).data /\ ~isStale'
                  /\ loadPc' = "done"
                  /\ FetchesInFlight' = FetchesInFlight
             ELSE /\ loadPc' = "fetch"
                  /\ swr => (data' = Entry(store).data /\ isStale')
       /\ (Mounted /\ swr /\ FoundExpired /\ isStale /\ ~isStale') =>
             (ReadFetchResolves \/ RefreshFetchResolves \/ data' = NoData)
       /\ (ApiReads /\ apiStore # <<>>) =>
             IF IsFresh(Entry(apiStore))
             THEN /\ apiOut' = "cached" /\ apiData' = Entry(apiStore).data
                  /\ apiPc' = "idle"
             ELSE apiPc' = "removeItem"]_vars

\* at the very end of the ttl the ApiService has answered from its cache,
\* while a read of the hook shows an expired entry, flagged stale, with its
\* revalidation in flight
C18_Witness ==
    /\ apiPc = "idle" /\ apiOut = "cached"
    /\ apiStore # <<>> /\ now - Entry(apiStore).timestamp = TtlTicks
    /\ apiData = Entry(apiStore).data
    /\ Mounted /\ loadPc = "fetch" /\ swr /\ FoundExpired
    /\ data = Entry(cached).data /\ isStale

FetchPending(p, i) == syncPc[p] = "fetch" /\ idx[p] = i

\* C19: no outbound fetch stays pending for ever: a replay fetch of
\* syncPendingOperations that gets no response is aborted when the timeout
\* elapses, and the pass goes on as after a network error.
C19_NoFetchPendingForever ==
    \A p \in Passes : \A i \in Ops :
        FetchPending(p, i) ~> ~FetchPending(p, i)

\* ---------------------------------------------------------------------
\* Properties of the molecule viewer
\* ---------------------------------------------------------------------

Created == glPc = "created"

AtomIndices == 0..(Len(molAtoms) - 1)

\* C12: every graph parseMoleculeData produced -- from an atom list, from
\* PDB text or the demo molecule -- has bonds whose two indices are valid
\* atom indices and differ, and joins no unordered pair of atoms twice.
C12_BondsWellFormed ==
    Created =>
        /\ \A k \in 1..Len(molBonds) :
              /\ molBonds[k].atom1 \in AtomIndices
              /\ molBonds[k].atom2 \in AtomIndices
              /\ molBonds[k].atom1 # molBonds[k].atom2
        /\ \A k, l \in 1..Len(molBonds) :
              k # l => {molBonds[k].atom1, molBonds[k].atom2}
                        # {molBonds[l].atom1, molBonds[l].atom2}

\* an atom list gave a graph with two bonds or more
C12_Witness ==
    /\ Created
    /\ inputAtoms # <<>>
    /\ Len(molBonds) >= 2

Inferred == Created /\ (inputAtoms # <<>> \/ pdbData # <<>>)

\* the square of the Euclidean distance of two atoms, in hundredths
SquaredDistance(i, j) ==
    (molAtoms[i].x - molAtoms[j].x) * (molAtoms[i].x - molAtoms[j].x)
    + (molAtoms[i].y - molAtoms[j].y) * (molAtoms[i].y - molAtoms[j].y)
    + (molAtoms[i].z - molAtoms[j].z) * (molAtoms[i].z - molAtoms[j].z)

HasPosition(i) == NaN \notin {molAtoms[i].x, molAtoms[i].y, molAtoms[i].z}

\* the pairs of 0-based atom indices i < j closer than 1.9
ClosePairs ==
    { <<i - 1, j - 1>> : <<i, j>> \in
        { q \in (1..Len(molAtoms)) \X (1..Len(molAtoms)) :
            /\ q[1] < q[2]
            /\ HasPosition(q[1]) /\ HasPosition(q[2])
            /\ SquaredDistance(q[1], q[2]) < 361 } }

\* C13: the inferred bonds are exactly the pairs i < j whose Euclidean
\* distance is strictly below 1.9, each once and with order 1: a pair at
\* distance 1.0 gets one bond, a pair at distance 1.9 or more gets none.
C13_BondsAreClosePairs ==
    Inferred =>
        /\ {<<molBonds[k].atom1, molBonds[k].atom2>> : k \in 1..Len(molBonds)}
             = ClosePairs
        /\ Len(molBonds) = Cardinality(ClosePairs)
        /\ \A k \in 1..Len(molBonds) : molBonds[k].order = 1

\* atoms at distance 1.0 and atoms at distance exactly 1.9 were parsed
C13_Witness ==
    /\ Inferred
    /\ \E i, j \in 1..Len(molAtoms) :
          HasPosition(i) /\ HasPosition(j) /\ SquaredDistance(i, j) = 100
    /\ \E i, j \in 1..Len(molAtoms) :
          HasPosition(i) /\ HasPosition(j) /\ SquaredDistance(i, j) = 361

\* C14: when bonds are passed along with atoms, the rendered graph has
\* exactly those bonds; bonds are inferred only when none were passed.
C14_SuppliedBondsRendered ==
    (Created /\ inputAtoms # <<>> /\ inputBonds # <<>>) =>
        molBonds = inputBonds[1]

\* constant vectors the atoms are moved by, in tenths
TranslationPool == {<<10, 0, 0>>, <<3, -2, 7>>, <<-10, 5, 0>>}

Translate(atoms, v) ==
    [i \in 1..Len(atoms) |->
        Atom(atoms[i].element, atoms[i].x + v[1], atoms[i].y + v[2],
             atoms[i].z + v[3])]

AllPositioned == \A i \in 1..Len(molAtoms) : HasPosition(i)

C20_NoFrameAfterUnmount ==
    ~viewerMounted => ~framePending

\* the records of the text passed as pdbData
RecordsOf(text) ==
    CHOOSE rs \in SeqsUpTo(PdbRecords, MaxLines) \ {<<>>} : PdbFile(rs) = text

\* the atoms a list of records describes: one per ATOM or HETATM record, in
\* order, at the coordinates written in the record, of the element written
\* in it or, when none is written, of the first two columns of the atom name
RECURSIVE AtomsOf(_)
AtomsOf(rs) ==
    IF rs = <<>> THEN <<>>
    ELSE LET r == Head(rs)
         IN (IF r.tag \in {"ATOM", "HETATM"}
             THEN <<Atom(IF r.element # "" THEN r.element
                         ELSE Trim(SubSeq(PadRight(r.name, 4), 1, 2)),
                         r.x, r.y, r.z)>>
             ELSE <<>>) \o AtomsOf(Tail(rs))

FromPdb == Created /\ inputAtoms = <<>> /\ pdbData # <<>>

\* C22: PDB text yields exactly one atom per line that begins with ATOM or
\* HETATM, in line order, with the x, y, z written in columns 31-38, 39-46,
\* 47-54 and the element of columns 77-78 or, when these are blank, of
\* columns 13-14; other lines yield no atom; the bonds are then inferred
\* from the atoms.
C22_PdbAtomsAsWritten ==
    FromPdb =>
        /\ molAtoms = AtomsOf(RecordsOf(pdbData[1]))
        /\ molBonds = InferBonds(molAtoms)

\* a HETATM line and an ATOM line without element symbol, 1.8 apart: two
\* atoms, the second named by columns 13-14, and a bond
C22_Witness ==
    /\ FromPdb
    /\ molAtoms = <<Atom("O", 10, 0, 0), Atom("N", 0, 15, 0)>>
    /\ molBonds = <<Bond(0, 1, 1)>>

\* C23: in wireframe no atom spheres are drawn at all, only the bonds.
C23_WireframeHasNoSpheres ==
    (Created /\ style = "wireframe") => spheres = <<>>

\* ---------------------------------------------------------------------
\* Properties of the hook's effects
\* ---------------------------------------------------------------------

\* C21: each hook instance has at most one NetInfo listener subscribed at
\* every moment, re-subscription included, and none once it is unmounted.
C21_ListenerUnsubscribed ==
    /\ listeners <= 1
    /\ ~Rendered => listeners = 0

\* the instance re-subscribed while offline and was then unmounted
C21_Witness ==
    /\ hk = "unmounted"
    /\ listenerCl
    /\ listeners = 0

\* C24: when the key of a mounted hook changes, the read for the new key
\* takes effect: a fresh entry found under the new key, or else the data the
\* fetcher returned for it, becomes the hook's data.
C24_NewKeyReadTakesEffect ==
    [][/\ (hk = "rekeyed" /\ ReadResumes /\ loadPc' = "done") =>
            data' = Entry(cached').data
       /\ (hk = "rekeyed" /\ ReadFetchResolves) => data' = fetched'
      ]_vars

\* C25: while the hook is mounted, once every read (on mount or on a key
\* change) and every refresh that was started has settled, isLoading is false.
C25_LoadingEnds ==
    (Rendered /\ Quiet) => ~isLoading

\* ---------------------------------------------------------------------
\* Properties of the auth token and the AuthContext operations
\* ---------------------------------------------------------------------

AuthIdle == authPc = "idle"
TokensAgree == secToken = asToken /\ asToken = authToken

\* login, logout or refreshAuth completes, or loadStoredAuth does after it
\* recovered through refreshToken
Completes ==
    /\ authPc # "idle"
    /\ authPc' = "idle"
    /\ authResult' = "resolved"
    /\ authOp = "load" => authPc = "refreshSave"

\* C26: when login, logout, refreshAuth, or loadStoredAuth recovering via
\* refreshToken has completed and no auth operation is in flight, the tokens
\* in SecureStore, in AsyncStorage and in ApiService memory are all equal or
\* all absent (the token in memory being the one last set there).
C26_TokensAgree ==
    [][(Completes /\ authToken' = lastSet') => TokensAgree']_vars

\* C27: once setAuthToken or clearAuthToken took effect, the in-memory token
\* is the one it put there until the next of them; the loadToken the
\* constructor started never overwrites it.
C27_MemoryTokenIsLastSet ==
    lastSet # Unset => authToken = lastSet

\* logout has completed, called by the application or by a refreshAuth that
\* failed and now rethrows
LogoutCompletes ==
    /\ authPc # "idle"
    /\ authPc' = "idle"
    /\ \/ authOp = "logout" /\ authResult' = "resolved"
       \/ authOp = "refreshAuth" /\ authResult' = "rethrown"

\* C28: when logout completes, whatever became of its request, and when a
\* failed refreshAuth rethrows, the state is signed out (no user, not
\* authenticated, not loading, no error) and neither SecureStore nor
\* AsyncStorage nor ApiService memory holds a token or a user.
C28_LogoutClearsEverything ==
    [][LogoutCompletes =>
        /\ user' = NoUser
        /\ ~isAuthenticated'
        /\ ~authIsLoading'
        /\ authError' = Null
        /\ secToken' = NoToken
        /\ secUser' = NoUser
        /\ asToken' = NoToken
        /\ authToken' = NoToken
      ]_vars

LoginFails ==
    /\ authOp = "login"
    /\ authPc' = "idle"
    /\ authResult' = "rejected"

\* C29: when login fails, at whatever step, the error is set with isLoading
\* false, user and isAuthenticated are as before, and the token the failed
\* attempt received, if any, is neither in ApiService memory nor in
\* AsyncStorage nor in SecureStore.
C29_FailedLoginLeavesNoToken ==
    [][LoginFails =>
        /\ authError' = AuthFailed
        /\ ~authIsLoading'
        /\ user' = user
        /\ isAuthenticated' = isAuthenticated
        /\ respToken # NoToken =>
              respToken \notin {authToken', asToken', secToken'}
      ]_vars

\* getFromCache hands the cached '/users/me' response to the request
ProfileCacheHit ==
    /\ authPc = "cacheGet"
    /\ authPc' = "idle"

\* C30: a response ApiService.request cached under one token is never
\* returned to a request made under a different token.
C30_CacheHitUnderSameToken ==
    [][ProfileCacheHit => Entry(meCache).token = authToken]_vars

====
